---- MODULE Spec2Model ----
(***************************************************************************)
(* find-main-content (src/index.js): findContent($, type, o) as a state     *)
(* machine.  The state is the parsed document (a tree the code mutates in  *)
(* place), the option objects, the locals of findContent and of the two    *)
(* loops of the scoring fallback, and the result object.                   *)
(*                                                                         *)
(* Strings are run-length sequences of characters, so the code's string    *)
(* operations (length, split(','), trim, whitespace collapsing, the        *)
(* string-to-number coercion of `text < MIN_CHARS`) are computed.          *)
(* The DOM is a sequence of nodes; node Body is <body>; a node's children  *)
(* are the ids in its kids field, its own text precedes its children.      *)
(* A removed node is simply no longer in any attached kids list.           *)
(* The output type is HTML; title and description are not modelled.        *)
(***************************************************************************)
EXTENDS Integers, Sequences, FiniteSets, TLC

VARIABLES input, o, options, dom, result, pc, content, article,
          topCandidate, paras, pi, candidates, ci, readability

vars == <<input, o, options, dom, result, pc, content, article,
          topCandidate, paras, pi, candidates, ci, readability>>

\* ------------------------------------------------------------ bounds
\* most rows a modelled table has
MaxRows == 3
\* most <p> children a modelled container has
MaxParas == 2
\* Number(text) is computed exactly below SatCap and saturates there
SatCap == 1000

\* ------------------------------------------------------------ constants
CLASS_WEIGHT == 25
VERY_GOOD_SCORE == 5
GOOD_SCORE == 3
BAD_SCORE == -3
VERY_BAD_SCORE == -5
HALF == 2
NBR_CHARS == 100
EXTRA_SCORE == 3
MIN_CHARS == 25
\* MIN_LINK_DENSITY = 0.33 as the fraction MIN_LINK_DENSITY_NUM / MIN_LINK_DENSITY_DEN
MIN_LINK_DENSITY_NUM == 33
MIN_LINK_DENSITY_DEN == 100

HEADERS == {"h1", "h2", "h3", "h4", "h5", "h6", "h7"}
BASIC_CONTENT == {"p", "h1", "h2", "h3", "h4", "h5", "h6", "h7"}
BAD_TAGS == {"script", "link", "header", "style", "noscript", "object",
             "footer", "nav", "iframe", "br", "svg"}
N0T_A_GOOD_CLASS == {"combx", "comment", "disqus", "foot", "header", "menu",
                     "meta", "nav", "rss", "shoutbox", "sidebar", "sponsor",
                     "ssba", "bctt-click-to-tweet", "promo", "promotion"}
N0T_A_GOOD_ID == {"combx", "comments", "disqus", "foot", "header", "menu",
                  "meta", "nav", "rss", "shoutbox", "sidebar", "sponsor",
                  "promo", "promotion", "ads"}
\* DIV_ARTICLE = 'article,.article,#article,section,table,.container'
DIV_ARTICLE_TAGS == {"article", "section", "table"}
DIV_ARTICLE_CLASSES == {"article", "container"}
DIV_ARTICLE_IDS == {"article"}

\* REGEX.positiveRe / REGEX.negativeRe are substring searches; these are the
\* matches among the class and id names the modelled documents use
\* ("", "sidebar", "footer", "content", "article", "container").
positiveRe(s) == s \in {"content", "article"}
negativeRe(s) == s \in {"footer"}

\* ------------------------------------------------------------ strings
Ch(c, k) == <<[ch |-> c, n |-> k]>>
Digits == {"0", "7"}
DigitValue(c) == IF c = "7" THEN 7 ELSE 0

RECURSIVE Norm(_)
\* canonical form: adjacent runs of one character merged
Norm(t) ==
  IF Len(t) <= 1 THEN t
  ELSE LET r == Norm(Tail(t))
           h == Head(t)
       IN IF Head(r).ch = h.ch
          THEN <<[ch |-> h.ch, n |-> h.n + Head(r).n]>> \o Tail(r)
          ELSE <<h>> \o r

RECURSIVE Length(_)
\* String.prototype.length
Length(t) == IF t = <<>> THEN 0 ELSE Head(t).n + Length(Tail(t))

RECURSIVE CountChar(_, _)
CountChar(t, c) ==
  IF t = <<>> THEN 0
  ELSE (IF Head(t).ch = c THEN Head(t).n ELSE 0) + CountChar(Tail(t), c)

\* text.split(',').length
SplitLength(t) == CountChar(t, ",") + 1

RECURSIVE TrimLeft(_)
TrimLeft(t) == IF t # <<>> /\ Head(t).ch = " " THEN TrimLeft(Tail(t)) ELSE t
RECURSIVE TrimRight(_)
TrimRight(t) ==
  IF t # <<>> /\ t[Len(t)].ch = " " THEN TrimRight(SubSeq(t, 1, Len(t) - 1)) ELSE t
\* String.prototype.trim
Trim(t) == TrimRight(TrimLeft(t))

\* s.replace(/\s+/g, ' ').trim()
removeExtraChars(s) ==
  LET m == Norm(s)
  IN Trim([i \in DOMAIN m |-> IF m[i].ch = " " THEN [ch |-> " ", n |-> 1] ELSE m[i]])

\* removeLineBreakTabs(str) returns str
removeLineBreakTabs(str) == str

RECURSIVE RepDigit(_, _, _)
RepDigit(v, dgt, k) ==
  IF k = 0 THEN v
  ELSE LET w == v * 10 + dgt
       IN RepDigit(IF w > SatCap THEN SatCap ELSE w, dgt, k - 1)

RECURSIVE DigitsValue(_, _)
DigitsValue(v, t) ==
  IF t = <<>> THEN v
  ELSE DigitsValue(RepDigit(v, DigitValue(Head(t).ch), Head(t).n), Tail(t))

\* The abstract ToNumber a relational operator applies to a string operand:
\* whitespace is trimmed, "" is 0, a digit string is its value, anything
\* else is NaN.
ToNumber(t) ==
  LET s == Trim(t)
  IN IF s = <<>> THEN [nan |-> FALSE, v |-> 0]
     ELSE IF \A i \in DOMAIN s : s[i].ch \in Digits
          THEN [nan |-> FALSE, v |-> DigitsValue(0, s)]
          ELSE [nan |-> TRUE, v |-> 0]

\* string < number: false when the string coerces to NaN
StringLessThan(t, k) == LET x == ToNumber(t) IN ~x.nan /\ x.v < k

\* ------------------------------------------------------------ DOM
Body == 1
Range(s) == {s[i] : i \in DOMAIN s}
Node(tag, cls, id, text, kids) ==
  [tag |-> tag, cls |-> cls, id |-> id, text |-> text, kids |-> kids]

RECURSIVE DescOfKids(_, _)
\* the descendants below a list of siblings, in document order
DescOfKids(d, ks) ==
  IF ks = <<>> THEN <<>>
  ELSE <<Head(ks)>> \o DescOfKids(d, d[Head(ks)].kids) \o DescOfKids(d, Tail(ks))

Desc(d, n) == DescOfKids(d, d[n].kids)

RECURSIVE Dedup(_)
Dedup(s) ==
  IF s = <<>> THEN <<>>
  ELSE LET r == Dedup(SubSeq(s, 1, Len(s) - 1))
       IN IF s[Len(s)] \in Range(r) THEN r ELSE Append(r, s[Len(s)])

RECURSIVE DescOfAll(_, _)
DescOfAll(d, sel) ==
  IF sel = <<>> THEN <<>> ELSE Desc(d, Head(sel)) \o DescOfAll(d, Tail(sel))

IsElement(d, n) == d[n].tag \notin {"#text", "#comment"}

\* selection.find(...): the matching descendants of the selected elements
\* (matching is the set of nodes the selector matches)
Find(d, sel, matching) ==
  SelectSeq(Dedup(DescOfAll(d, sel)), LAMBDA n : IsElement(d, n) /\ n \in matching)

FindTags(d, sel, tags) == Find(d, sel, {n \in DOMAIN d : d[n].tag \in tags})

\* selection.children()
Children(d, n) == SelectSeq(d[n].kids, LAMBDA k : IsElement(d, k))

\* $(e).parent()['0']; 0 when e is detached
Parent(d, n) ==
  IF \E m \in DOMAIN d : n \in Range(d[m].kids)
  THEN CHOOSE m \in DOMAIN d : n \in Range(d[m].kids)
  ELSE 0

\* selection.remove()
RemoveSet(d, S) ==
  [m \in DOMAIN d |-> [d[m] EXCEPT !.kids = SelectSeq(@, LAMBDA k : k \notin S)]]
Remove(d, n) == RemoveSet(d, {n})

RECURSIVE TextOfKids(_, _)
TextOfKids(d, ks) ==
  IF ks = <<>> THEN <<>>
  ELSE (IF d[Head(ks)].tag = "#comment" THEN <<>>
        ELSE d[Head(ks)].text \o TextOfKids(d, d[Head(ks)].kids))
       \o TextOfKids(d, Tail(ks))

\* $(e).text()
Text(d, n) == Norm(d[n].text \o TextOfKids(d, d[n].kids))

\* ------------------------------------------------------------ options
defaultOptions ==
  [useFirstH1 |-> TRUE, removeH1FromContent |-> TRUE,
   removeHeadersWithoutText |-> TRUE, removeImages |-> TRUE,
   removeFigcaptions |-> TRUE, replaceLinks |-> TRUE,
   removeForm |-> FALSE, removeEmptyTag |-> FALSE]

\* { ...a, ...b }: the keys of both, b's value where both have the key
Spread(a, b) ==
  [k \in DOMAIN a \cup DOMAIN b |-> IF k \in DOMAIN b THEN b[k] ELSE a[k]]

\* const options = { ...o, ...defaultOptions }
MergeOptions(opts) == Spread(opts, defaultOptions)

\* ------------------------------------------------------------ values
\* a defined string / undefined (Array.prototype.shift on an empty array)
Str(t) == [def |-> TRUE, s |-> t]
Undefined == [def |-> FALSE, s |-> <<>>]
\* the literal text "null" a template string makes of a null .html()
NullText == Ch("n", 1) \o Ch("u", 1) \o Ch("l", 2)

\* ------------------------------------------------------------ metadata
getFirstH1(d) ==
  LET hs == FindTags(d, <<Body>>, {"h1"})
      texts == [i \in DOMAIN hs |-> removeLineBreakTabs(Text(d, hs[i]))]
      h1s == SelectSeq(texts, LAMBDA t : t # <<>>)
  IN IF h1s = <<>> THEN Undefined ELSE Str(Head(h1s))

getH1(d, useFirstH1) ==
  LET nbrH1 == Len(FindTags(d, <<Body>>, {"h1"}))
  IN IF nbrH1 = 0 THEN Str(<<>>)
     ELSE IF nbrH1 = 1 \/ useFirstH1 THEN getFirstH1(d) ELSE Str(<<>>)

\* ------------------------------------------------------------ heuristics
getClassWeight(d, element) ==
  LET c == d[element].cls
      id == d[element].id
      wc == IF c # ""
            THEN (IF negativeRe(c) THEN -CLASS_WEIGHT ELSE 0)
               + (IF positiveRe(c) THEN CLASS_WEIGHT ELSE 0)
            ELSE 0
      wi == IF id # ""
            THEN (IF negativeRe(id) THEN -CLASS_WEIGHT ELSE 0)
               + (IF positiveRe(id) THEN CLASS_WEIGHT ELSE 0)
            ELSE 0
  IN wc + wi

RECURSIVE SumLength(_, _)
SumLength(d, as) ==
  IF as = <<>> THEN 0 ELSE Length(Text(d, Head(as))) + SumLength(d, Tail(as))

\* linkLength / textLength, kept as the pair (the quotient is formed by its users)
getLinkDensity(d, element) ==
  [linkLength |-> SumLength(d, FindTags(d, <<element>>, {"a"})),
   textLength |-> Length(removeExtraChars(Text(d, element)))]

\* getLinkDensity(...) > MIN_LINK_DENSITY; x/0 is Infinity for x > 0 and NaN for x = 0
DensityAboveMin(ld) ==
  ld.linkLength * MIN_LINK_DENSITY_DEN > MIN_LINK_DENSITY_NUM * ld.textLength

ToUpperCase(name) ==
  CASE name = "div" -> "DIV" [] name = "pre" -> "PRE" [] name = "td" -> "TD"
    [] name = "li" -> "LI" [] name = "ul" -> "UL" [] name = "th" -> "TH"
    [] name = "h1" -> "H1" [] name = "h2" -> "H2" [] name = "h3" -> "H3"
    [] OTHER -> name

\* the same without toUpperCase(): no lower-case tag name is 'DIV'
getContentScore_CaseSensitive(elementName) ==
  IF elementName = "DIV" THEN VERY_GOOD_SCORE
  ELSE IF elementName \in {"PRE", "TD", "BLOCKQUOTE"} THEN GOOD_SCORE
  ELSE IF elementName \in {"ADDRESS", "OL", "UL", "DL", "DD", "DT", "LI", "FORM"}
       THEN BAD_SCORE
  ELSE IF elementName \in {"H1", "H2", "H3", "H4", "H5", "H6", "TH"}
       THEN VERY_BAD_SCORE
  ELSE 0

getContentScore(elementName) ==
  IF ToUpperCase(elementName) = "DIV" THEN VERY_GOOD_SCORE
  ELSE IF elementName \in {"PRE", "TD", "BLOCKQUOTE"} THEN GOOD_SCORE
  ELSE IF elementName \in {"ADDRESS", "OL", "UL", "DL", "DD", "DT", "LI", "FORM"}
       THEN BAD_SCORE
  ELSE IF elementName \in {"H1", "H2", "H3", "H4", "H5", "H6", "TH"}
       THEN VERY_BAD_SCORE
  ELSE 0

\* ------------------------------------------------------------ numbers
\* contentScore is a rational n/d in lowest terms (d > 0); d = 0 is NaN
RECURSIVE GCD(_, _)
GCD(a, b) == IF b = 0 THEN a ELSE GCD(b, a % b)
Abs(x) == IF x < 0 THEN -x ELSE x
Rat(n, d) ==
  IF d = 0 THEN [n |-> 0, d |-> 0]
  ELSE LET g == GCD(Abs(n), d) IN [n |-> n \div g, d |-> d \div g]
NoScore == [has |-> FALSE, contentScore |-> Rat(0, 1)]
AddRat(a, b) == Rat(a.n * b.d + b.n * a.d, a.d * b.d)
\* a > b on numbers: false when either side is NaN
GreaterRat(a, b) == a.d > 0 /\ b.d > 0 /\ a.n * b.d > b.n * a.d

\* contentScore * (linkLength / textLength): the factor without the "1 -"
ScaleByLinkDensity_ByDensity(score, ld) ==
  Rat(score.n * ld.linkLength, score.d * ld.textLength)

\* contentScore * (1 - linkLength / textLength)
ScaleByLinkDensity(score, ld) ==
  Rat(score.n * (ld.textLength - ld.linkLength), score.d * ld.textLength)

\* ------------------------------------------------------------ sanitizer
RECURSIVE removeTags(_, _)
removeTags(d, tags) ==
  IF tags = <<>> THEN d
  ELSE removeTags(RemoveSet(d, Range(FindTags(d, <<Body>>, {Head(tags)}))), Tail(tags))

RemoveHeader(d, header) ==
  IF getClassWeight(d, header) < 0 \/ DensityAboveMin(getLinkDensity(d, header))
  THEN Remove(d, header)
  ELSE d

RECURSIVE RemoveHeadersEach(_, _)
RemoveHeadersEach(d, hs) ==
  IF hs = <<>> THEN d ELSE RemoveHeadersEach(RemoveHeader(d, Head(hs)), Tail(hs))

removeHeadersWithoutText(d) == RemoveHeadersEach(d, FindTags(d, <<Body>>, HEADERS))

cleanHTML(d, opt) ==
  LET d0 == IF opt.removeTags # <<>> THEN removeTags(d, opt.removeTags) ELSE d
      bad == BAD_TAGS \cup (IF opt.removeForm THEN {"form"} ELSE {})
      d1 == RemoveSet(d0, Range(FindTags(d0, <<Body>>, bad)))
      d2 == RemoveSet(d1, Range(Find(d1, <<Body>>, {n \in DOMAIN d1 : d1[n].cls \in N0T_A_GOOD_CLASS})))
      d3 == RemoveSet(d2, Range(Find(d2, <<Body>>, {n \in DOMAIN d2 : d2[n].id \in N0T_A_GOOD_ID})))
      d4 == RemoveSet(d3, {n \in Range(Desc(d3, Body)) : d3[n].tag = "#comment"})
  IN IF opt.removeHeadersWithoutText THEN removeHeadersWithoutText(d4) ELSE d4

\* ------------------------------------------------------------ locator
IsSection(d, n) ==
  \/ d[n].tag \in DIV_ARTICLE_TAGS
  \/ d[n].cls \in DIV_ARTICLE_CLASSES
  \/ d[n].id \in DIV_ARTICLE_IDS

NbrParas(d, s) == Len(FindTags(d, <<s>>, {"p"}))

\* if (selectedSection.nbrParas < nbrParas)
BetterSection(selectedNbrParas, nbrParas) == selectedNbrParas < nbrParas

RECURSIVE FindArticleEach(_, _, _)
FindArticleEach(d, ss, selectedSection) ==
  IF ss = <<>> THEN selectedSection
  ELSE LET s == Head(ss)
           nbrParas == NbrParas(d, s)
       IN FindArticleEach(d, Tail(ss),
            IF BetterSection(selectedSection.nbrParas, nbrParas)
            THEN [s |-> s, nbrParas |-> nbrParas]
            ELSE selectedSection)

\* the selected element, 0 for null
findArticle(d) ==
  FindArticleEach(d, Find(d, <<Body>>, {n \in DOMAIN d : IsSection(d, n)}),
                  [s |-> 0, nbrParas |-> 0]).s

\* $(p).text() < MIN_CHARS
IgnoreParagraph(text) == StringLessThan(text, MIN_CHARS)

initializeElement(d, e) ==
  [has |-> TRUE, contentScore |-> Rat(getContentScore(d[e].tag) + getClassWeight(d, e), 1)]

\* 1 + text.split(',').length + Math.min(Math.floor(text.length / NBR_CHARS), EXTRA_SCORE)
ParagraphScore(text) ==
  LET extra == Length(text) \div NBR_CHARS
  IN 1 + SplitLength(text) + (IF extra < EXTRA_SCORE THEN extra ELSE EXTRA_SCORE)

AddScore(r, e, amount) ==
  [r EXCEPT ![e].contentScore = AddRat(@, amount)]

\* one call of the callback of findGoodCandidates, for paragraph p
GoodCandidate(d, r, cs, p) ==
  LET d1 == IF Length(Text(d, p)) = 0 THEN Remove(d, p) ELSE d
      text == Text(d1, p)
      r1 == IF r[p].has THEN r ELSE [r EXCEPT ![p] = initializeElement(d1, p)]
      cs1 == IF r[p].has THEN cs ELSE Append(cs, p)
      parent == Parent(d1, p)
      r2 == IF r1[parent].has THEN r1 ELSE [r1 EXCEPT ![parent] = initializeElement(d1, parent)]
      cs2 == IF r1[parent].has THEN cs1 ELSE Append(cs1, parent)
      contentScore == ParagraphScore(text)
  IN IF IgnoreParagraph(text)
     THEN [d |-> d1, r |-> r, cs |-> cs]
     ELSE [d |-> d1, cs |-> cs2,
           r |-> AddScore(AddScore(r2, p, Rat(contentScore, 1)),
                          parent, Rat(contentScore, HALF))]

\* ------------------------------------------------------------ extraction
RECURSIVE ReplaceLinks(_, _)
\* $(a).replaceWith(text): the anchor becomes a text node holding its text
ReplaceLinks(d, as) ==
  IF as = <<>> THEN d
  ELSE ReplaceLinks(
         [d EXCEPT ![Head(as)] = Node("#text", "", "", Text(d, Head(as)), <<>>)],
         Tail(as))

RECURSIVE LinkTexts(_, _, _)
LinkTexts(d, as, replace) ==
  IF as = <<>> THEN <<>>
  ELSE <<removeLineBreakTabs(Text(d, Head(as)))>>
       \o LinkTexts(IF replace THEN ReplaceLinks(d, <<Head(as)>>) ELSE d, Tail(as), replace)

findLinks(d, sel, opt) ==
  LET as == FindTags(d, sel, {"a"})
  IN [links |-> LinkTexts(d, as, opt.replaceLinks),
      d |-> IF opt.replaceLinks THEN ReplaceLinks(d, as) ELSE d]

findImages(d, sel, opt) ==
  [images |-> FindTags(d, sel, {"img"}),
   d |-> IF opt.removeImages
         THEN RemoveSet(d, Range(FindTags(d, <<Body>>, {"img"})))
         ELSE d]

findHeaders(d, sel) ==
  LET hs == FindTags(d, sel, HEADERS)
      all == [i \in DOMAIN hs |->
                [type |-> d[hs[i]].tag, text |-> removeLineBreakTabs(Text(d, hs[i]))]]
  IN SelectSeq(all, LAMBDA h : h.text # <<>> /\ Trim(h.text) # <<>>)

\* ------------------------------------------------------------ post-processing
removeH1FromContent(d, sel) ==
  LET h1 == FindTags(d, sel, {"h1"})
  IN IF Len(h1) = 1 THEN RemoveSet(d, Range(h1)) ELSE d

RECURSIVE InParagraph(_, _)
\* $(s).parents('p').length > 0
InParagraph(d, n) ==
  LET m == Parent(d, n)
  IN m # 0 /\ (d[m].tag = "p" \/ InParagraph(d, m))

\* the three tests of cleanContent's each-loops
HasNoBasicContent(d, e) ==
  SelectSeq(Children(d, e), LAMBDA k : d[k].tag \in BASIC_CONTENT) = <<>>
HasNoChildren(d, e) == Children(d, e) = <<>>
NotInParagraph(d, e) == ~InParagraph(d, e)
Test(which, d, e) ==
  CASE which = "removeEmptyTag" -> HasNoBasicContent(d, e)
    [] which = "emptyDiv" -> HasNoChildren(d, e)
    [] which = "span" -> NotInParagraph(d, e)

RECURSIVE RemoveEach(_, _, _)
\* selection.each((i, e) => { if (test(e)) $(e).remove() })
RemoveEach(d, es, which) ==
  IF es = <<>> THEN d
  ELSE RemoveEach(IF Test(which, d, Head(es)) THEN Remove(d, Head(es)) ELSE d,
                  Tail(es), which)

\* new nodes, appended to the node table, copying the subtrees below ks of src
RECURSIVE CloneSeq(_, _, _)
CloneSeq(d, src, ks) ==
  IF ks = <<>> THEN [d |-> d, ids |-> <<>>]
  ELSE LET sub == CloneSeq(d, src, src[Head(ks)].kids)
           me == Len(sub.d) + 1
           d2 == Append(sub.d, [src[Head(ks)] EXCEPT !.kids = sub.ids])
           rest == CloneSeq(d2, src, Tail(ks))
       IN [d |-> rest.d, ids |-> <<me>> \o rest.ids]

\* the nodes `<tag>${e.html()}</tag>` parses to: a new element holding a copy
\* of e's content, or the text "null" when e is an empty selection (e = 0)
Wrap(d, tag, e) ==
  IF e = 0
  THEN [d |-> Append(d, Node(tag, "", "", NullText, <<>>)), id |-> Len(d) + 1]
  ELSE LET c == CloneSeq(d, d, d[e].kids)
       IN [d |-> Append(c.d, Node(tag, "", "", d[e].text, c.ids)), id |-> Len(c.d) + 1]

FirstOf(s) == IF s = <<>> THEN 0 ELSE Head(s)

\* Case 1: a table with a tbody but without thead
HeaderFromTbody(d, t, firstElement) ==
  LET firstRow == FirstOf(Children(d, firstElement))
      w == Wrap(d, "thead", firstRow)
      d2 == [w.d EXCEPT ![t].kids = <<w.id>> \o @]
  IN IF firstRow = 0 THEN d2 ELSE Remove(d2, firstRow)

\* Case 2: a table without tbody and without thead
HeaderFromFirstRow(d, t, firstElement) ==
  LET d1 == Remove(d, firstElement)
      head == Wrap(d1, "thead", firstElement)
      \* $(t).children().html(): the html of the first element of the selection
      body == Wrap(head.d, "tbody", FirstOf(Children(d1, t)))
  IN [body.d EXCEPT ![t].kids = <<head.id, body.id>>]

addTableHeader(d, t) ==
  LET d1 == RemoveSet(d, Range(FindTags(d, <<t>>, {"caption"})))
      firstElement == FirstOf(Children(d1, t))
  IN IF firstElement = 0
     THEN [threw |-> TRUE, d |-> d1]
     ELSE [threw |-> FALSE,
           d |-> IF d1[firstElement].tag = "tbody"
                 THEN HeaderFromTbody(d1, t, firstElement)
                 ELSE HeaderFromFirstRow(d1, t, firstElement)]

RECURSIVE FixTables(_, _)
FixTables(d, ts) ==
  IF ts = <<>> THEN [threw |-> FALSE, d |-> d]
  ELSE IF FindTags(d, <<Head(ts)>>, {"thead"}) = <<>>
       THEN LET r == addTableHeader(d, Head(ts))
            IN IF r.threw THEN r ELSE FixTables(r.d, Tail(ts))
       ELSE FixTables(d, Tail(ts))

cleanContent(d, sel, opt) ==
  LET d1 == IF opt.removeH1FromContent THEN removeH1FromContent(d, sel) ELSE d
      d2 == IF opt.removeImages /\ opt.removeFigcaptions
            THEN RemoveSet(d1, Range(FindTags(d1, sel, {"figcaption"})))
            ELSE d1
      d3 == IF opt.removeEmptyTag
            THEN RemoveEach(d2, FindTags(d2, sel, {"div"}), "removeEmptyTag")
            ELSE d2
      d4 == RemoveEach(d3, FindTags(d3, sel, {"div"}), "emptyDiv")
      d5 == RemoveEach(d4, FindTags(d4, sel, {"span"}), "span")
  IN FixTables(d5, FindTags(d5, sel, {"table"}))

\* ------------------------------------------------------------ serializer
Tok(k, n) == [k |-> k, tag |-> n.tag, cls |-> n.cls, id |-> n.id, s |-> n.text]

RECURSIVE HtmlOfKids(_, _)
HtmlOfKids(d, ks) ==
  IF ks = <<>> THEN <<>>
  ELSE LET n == d[Head(ks)]
       IN (IF IsElement(d, Head(ks))
           THEN <<Tok("open", n)>> \o HtmlOfKids(d, n.kids) \o <<Tok("close", n)>>
           ELSE <<Tok(n.tag, n)>>)
          \o HtmlOfKids(d, Tail(ks))

\* selection.html(): null for an empty selection, else the first element's
\* inner markup (the opening token of an element carries its own text)
Html(d, sel) ==
  IF sel = <<>> THEN [isNull |-> TRUE, markup |-> <<>>]
  ELSE [isNull |-> FALSE,
        markup |-> (IF d[Head(sel)].text = <<>> THEN <<>>
                    ELSE <<Tok("#text", Node("", "", "", d[Head(sel)].text, <<>>))>>)
                   \o HtmlOfKids(d, d[Head(sel)].kids)]

\* $(x): a selection object; $(null) is the empty selection
Select(e) == IF e = 0 THEN <<>> ELSE <<e>>
\* $(selector) for the selectors modelled: a tag name
SelectAll(d, selector) == FindTags(d, <<Body>>, {selector})
\* the truthiness of a selection object: every object is truthy
Truthy(sel) == TRUE

\* ------------------------------------------------------------ documents
\* A document is written as nested elements and numbered in document order.
El(tag, text, kids) == Node(tag, "", "", text, kids)

RECURSIVE Build(_, _)
Build(d, trees) ==
  IF trees = <<>> THEN [d |-> d, ids |-> <<>>]
  ELSE LET t == Head(trees)
           me == Len(d) + 1
           sub == Build(Append(d, [t EXCEPT !.kids = <<>>]), t.kids)
           rest == Build([sub.d EXCEPT ![me].kids = sub.ids], Tail(trees))
       IN [d |-> rest.d, ids |-> <<me>> \o rest.ids]

Document(trees) == Build(<<>>, <<El("body", <<>>, trees)>>).d

X(k) == IF k = 0 THEN <<>> ELSE Ch("x", k)
\* k characters, c of them commas
PText(k, c) == IF c = 0 THEN X(k) ELSE X(k - c) \o Ch(",", c)
Long == X(30)
Padded == Ch(" ", 1) \o X(2) \o Ch(" ", 1)

\* paragraph texts: long and short, with few and many commas, blank, empty,
\* and digit strings (24 zeros and a 7; 77; 25 sevens)
ParagraphTexts ==
  {PText(30, 0), PText(30, 7), PText(30, 8), PText(120, 0), PText(350, 9),
   X(5), <<>>, Ch(" ", 3), Ch("0", 24) \o Ch("7", 1), Ch("7", 2), Ch("7", 25)}

\* a sidebar <div> and a <div> holding one <p>, optionally with a link in
\* the <p> and a second <p>
ScoreDocs ==
  { Document(<<Node("div", "sidebar", "", <<>>, <<El("p", Long, <<>>)>>),
               Node("div", c, "", <<>>,
                 <<El("p", tp, IF la = 0 THEN <<>> ELSE <<El("a", X(la), <<>>)>>)>>
                 \o (IF two THEN <<El("p", X(5), <<>>)>> ELSE <<>>))>>) :
      c \in {"", "content", "footer"}, tp \in ParagraphTexts,
      la \in {0, 10, 40}, two \in BOOLEAN }

\* up to two headings, one above and one inside an <article> or a <div>;
\* the first heading's text is plain, padded with blanks, or empty
HeadingPairs ==
  {<<"h1", "h1">>, <<"h1", "h2">>, <<"h2", "h1">>, <<"h2", "h2">>}

H1Docs ==
  { Document(<<El(t[1], ta, <<>>),
               El(box, <<>>, <<El(t[2], X(3), <<>>), El("p", Long, <<>>)>>)>>) :
      t \in HeadingPairs, box \in {"article", "div"}, ta \in {X(2), Padded} }
  \cup
  { Document(<<El("h1", <<>>, <<>>),
               El(box, <<>>, <<El("h1", X(3), <<>>), El("p", Long, <<>>)>>)>>) :
      box \in {"article", "div"} }

RowsOf(k) == [i \in 1..k |-> El("tr", <<>>, <<El("td", X(i), <<>>)>>)]

\* an <article> with a <p> and a table of 0..MaxRows one-cell rows, the rows
\* directly in the table, in a <tbody>, after a <caption>, or after a <thead>
TableKids(shape, k) ==
  CASE shape = "rows" -> RowsOf(k)
    [] shape = "tbody" -> <<El("tbody", <<>>, RowsOf(k))>>
    [] shape = "caption" -> <<El("caption", X(1), <<>>)>> \o RowsOf(k)
    [] shape = "thead" ->
         <<El("thead", <<>>, <<El("tr", <<>>, <<El("th", X(9), <<>>)>>)>>),
           El("tbody", <<>>, RowsOf(k))>>

TableShapes == {"rows", "tbody", "caption", "thead"}

TableDoc(shape, k) ==
  Document(<<El("article", <<>>,
                <<El("p", Long, <<>>), El("table", <<>>, TableKids(shape, k))>>)>>)

TableDocs == { TableDoc(shape, k) : shape \in TableShapes, k \in 0..MaxRows }

\* a heading holding a link and a nested heading, with a comment and a script
CleanDocs ==
  { Document(<<El("div", <<>>,
                  <<Node("h2", c2, "", <<>>,
                      <<El("a", X(la), <<>>), Node("h3", c3, "", X(lh), <<>>)>>),
                    El("p", Long, <<>>)>>),
               El("#comment", X(3), <<>>),
               El("script", X(3), <<>>),
               Node("div", "", "sidebar", <<>>, <<>>)>>) :
      c2 \in {"", "footer"}, c3 \in {"", "footer"}, la \in {4, 20}, lh \in {4, 20} }

ParasOf(k) == [i \in 1..k |-> El("p", Long, <<>>)]

\* containers of Phase A with 0..MaxParas paragraphs each, and a plain <div>
ArticleDocs ==
  { Document(<<El("section", X(4), ParasOf(k)),
               Node(box[1], box[2], box[3], X(4), ParasOf(m)),
               El("div", <<>>, ParasOf(1))>>) :
      k \in 0..MaxParas, m \in 0..MaxParas,
      box \in {<<"article", "", "">>, <<"div", "container", "">>, <<"div", "", "article">>} }

\* documents without any <p> and without a Phase A container
PlainDocs ==
  { Document(<<El("span", X(4), <<>>)>>),
    Document(<<El("div", X(4),
                  <<El("span", X(2), <<>>), El("img", <<>>, <<>>),
                    El("figcaption", X(2), <<>>), El("div", X(1), <<>>)>>)>>),
    Document(<<El("div", <<>>, <<El("h1", X(2), <<>>)>>), El("form", X(2), <<>>)>>),
    Document(<<>>) }

\* the options a caller passes (every key given; "" and <<>> are unset)
CallerOptions(u, r, sel, tags) ==
  [useFirstH1 |-> u, removeH1FromContent |-> r,
   removeHeadersWithoutText |-> TRUE, removeImages |-> TRUE,
   removeFigcaptions |-> TRUE, replaceLinks |-> TRUE,
   removeForm |-> FALSE, removeEmptyTag |-> FALSE,
   htmlSelector |-> sel, removeTags |-> tags]

Plain == CallerOptions(TRUE, TRUE, "", <<>>)

Inputs ==
  [doc : ScoreDocs, o : {Plain}]
  \cup [doc : H1Docs, o : {CallerOptions(u, r, "", <<>>) : u \in BOOLEAN, r \in BOOLEAN}]
  \cup [doc : TableDocs \cup CleanDocs \cup ArticleDocs, o : {Plain}]
  \cup [doc : PlainDocs,
        o : {CallerOptions(TRUE, TRUE, sel, tags) :
               sel \in {"", "div", "main"}, tags \in {<<>>, <<"span", "form">>}}]

\* ------------------------------------------------------------ findContent
NoResult ==
  [h1 |-> Undefined, images |-> <<>>, links |-> <<>>, headers |-> <<>>,
   content |-> <<>>]

\* content = content ? content : $('body')
OrBody(sel) == IF Truthy(sel) THEN sel ELSE <<Body>>

Init ==
  \E in \in Inputs :
    /\ input = in.doc
    /\ o = in.o
    /\ options = MergeOptions(in.o)
    /\ dom = in.doc
    /\ result = NoResult
    /\ pc = "getH1"
    /\ content = <<>>
    /\ article = 0
    /\ topCandidate = 0
    /\ paras = <<>>
    /\ pi = 1
    /\ candidates = <<>>
    /\ ci = 1
    /\ readability = [n \in DOMAIN in.doc |-> NoScore]

GetH1 ==
  /\ pc = "getH1"
  /\ result' = [result EXCEPT !.h1 = getH1(dom, options.useFirstH1)]
  /\ pc' = "cleanHTML"
  /\ UNCHANGED <<input, o, options, dom, content, article, topCandidate,
                 paras, pi, candidates, ci, readability>>

CleanHTML ==
  /\ pc = "cleanHTML"
  /\ dom' = cleanHTML(dom, options)
  /\ pc' = "findContentSection"
  /\ UNCHANGED <<input, o, options, result, content, article, topCandidate,
                 paras, pi, candidates, ci, readability>>

UseSelector ==
  /\ pc = "findContentSection"
  /\ options.htmlSelector # ""
  /\ content' = OrBody(SelectAll(dom, options.htmlSelector))
  /\ pc' = "findImages"
  /\ UNCHANGED <<input, o, options, dom, result, article, topCandidate,
                 paras, pi, candidates, ci, readability>>

FindArticle ==
  /\ pc = "findContentSection"
  /\ options.htmlSelector = ""
  /\ article' = findArticle(dom)
  /\ IF article' # 0
     THEN /\ content' = OrBody(Select(article'))
          /\ pc' = "findImages"
          /\ UNCHANGED paras
     ELSE /\ paras' = FindTags(dom, <<Body>>, {"p"})
          /\ pc' = "findGoodCandidates"
          /\ UNCHANGED content
  /\ UNCHANGED <<input, o, options, dom, result, topCandidate, pi,
                 candidates, ci, readability>>

FindGoodCandidatesEach ==
  /\ pc = "findGoodCandidates"
  /\ pi <= Len(paras)
  /\ LET g == GoodCandidate(dom, readability, candidates, paras[pi])
     IN /\ dom' = g.d
        /\ readability' = g.r
        /\ candidates' = g.cs
  /\ pi' = pi + 1
  /\ UNCHANGED <<input, o, options, result, pc, content, article,
                 topCandidate, paras, ci>>

FindGoodCandidatesReturn ==
  /\ pc = "findGoodCandidates"
  /\ pi > Len(paras)
  /\ pc' = "getTopCandidate"
  /\ UNCHANGED <<input, o, options, dom, result, content, article,
                 topCandidate, paras, pi, candidates, ci, readability>>

GetTopCandidateEach ==
  /\ pc = "getTopCandidate"
  /\ ci <= Len(candidates)
  /\ LET c == candidates[ci]
         scaled == ScaleByLinkDensity(readability[c].contentScore,
                                      getLinkDensity(dom, c))
     IN /\ readability' = [readability EXCEPT ![c].contentScore = scaled]
        /\ topCandidate' =
             IF topCandidate = 0
                \/ GreaterRat(scaled, readability[topCandidate].contentScore)
             THEN c ELSE topCandidate
  /\ ci' = ci + 1
  /\ UNCHANGED <<input, o, options, dom, result, pc, content, article,
                 paras, pi, candidates>>

GetTopCandidateReturn ==
  /\ pc = "getTopCandidate"
  /\ ci > Len(candidates)
  /\ content' = OrBody(Select(topCandidate))
  /\ pc' = "findImages"
  /\ UNCHANGED <<input, o, options, dom, result, article, topCandidate,
                 paras, pi, candidates, ci, readability>>

FindImages ==
  /\ pc = "findImages"
  /\ LET f == findImages(dom, content, options)
     IN /\ result' = [result EXCEPT !.images = f.images]
        /\ dom' = f.d
  /\ pc' = "findLinks"
  /\ UNCHANGED <<input, o, options, content, article, topCandidate, paras,
                 pi, candidates, ci, readability>>

FindLinks ==
  /\ pc = "findLinks"
  /\ LET f == findLinks(dom, content, options)
     IN /\ result' = [result EXCEPT !.links = f.links]
        /\ dom' = f.d
  /\ pc' = "findHeaders"
  /\ UNCHANGED <<input, o, options, content, article, topCandidate, paras,
                 pi, candidates, ci, readability>>

FindHeaders ==
  /\ pc = "findHeaders"
  /\ result' = [result EXCEPT !.headers = findHeaders(dom, content)]
  /\ pc' = "cleanContent"
  /\ UNCHANGED <<input, o, options, dom, content, article, topCandidate,
                 paras, pi, candidates, ci, readability>>

\* cleanContent; a TypeError of addTableHeader leaves findContent
CleanContent ==
  /\ pc = "cleanContent"
  /\ LET c == cleanContent(dom, content, options)
     IN /\ dom' = c.d
        /\ pc' = IF c.threw THEN "threw" ELSE "html"
  /\ UNCHANGED <<input, o, options, result, content, article, topCandidate,
                 paras, pi, candidates, ci, readability>>

\* lines 110-116, type HTML: throw on a null html(), else return the result
ReturnContent ==
  /\ pc = "html"
  /\ LET h == Html(dom, content)
     IN IF h.isNull
        THEN pc' = "threw" /\ UNCHANGED result
        ELSE pc' = "done" /\ result' = [result EXCEPT !.content = h.markup]
  /\ UNCHANGED <<input, o, options, dom, content, article, topCandidate,
                 paras, pi, candidates, ci, readability>>

Next ==
  \/ GetH1
  \/ CleanHTML
  \/ UseSelector
  \/ FindArticle
  \/ FindGoodCandidatesEach
  \/ FindGoodCandidatesReturn
  \/ GetTopCandidateEach
  \/ GetTopCandidateReturn
  \/ FindImages
  \/ FindLinks
  \/ FindHeaders
  \/ CleanContent
  \/ ReturnContent

Spec == Init /\ [][Next]_vars

\* ------------------------------------------------------------ properties
Attached(d) == Range(Desc(d, Body))
H1s(d) == FindTags(d, <<Body>>, {"h1"})
AfterLocating == {"findImages", "findLinks", "findHeaders", "cleanContent", "html", "done", "threw"}

\* the text of the first <h1> of d, in document order, whose text is not empty
FirstNonEmptyH1(d) ==
  LET hs == H1s(d)
      i == CHOOSE i \in DOMAIN hs :
             /\ Text(d, hs[i]) # <<>>
             /\ \A j \in 1..(i - 1) : Text(d, hs[j]) = <<>>
  IN Text(d, hs[i])

\* C1: for a document with two or more <h1>, a call whose options carry
\* useFirstH1 = false returns h1 = ''; with useFirstH1 = true it returns the
\* text of the first <h1> with a non-empty text.
C1_AmbiguousH1 ==
  (pc = "done" /\ Len(H1s(input)) >= 2) =>
     /\ ~o.useFirstH1 => result.h1 = Str(<<>>)
     /\ (o.useFirstH1 /\ \E h \in Range(H1s(input)) : Text(input, h) # <<>>)
           => result.h1 = Str(FirstNonEmptyH1(input))

\* C2: for a document with exactly one <h1>, the returned h1 is that
\* heading's text trimmed, and with removeH1FromContent no <h1> is in the
\* returned content.
C2_SingleH1 ==
  (pc = "done" /\ Len(H1s(input)) = 1) =>
     /\ result.h1 = Str(Trim(Text(input, Head(H1s(input)))))
     /\ o.removeH1FromContent =>
          \A i \in DOMAIN result.content : result.content[i].tag # "h1"

\* C3: without an override, when Phase A and Phase B both yield nothing the
\* content is the document body and findContent returns instead of throwing.
C3_BodyFallback ==
  (pc \in {"done", "threw"} /\ options.htmlSelector = "" /\ article = 0 /\ topCandidate = 0)
     => (pc = "done" /\ content = <<Body>>)

\* the texts of the <td> cells below the elements es, in document order
CellTexts(d, es) ==
  LET cells == FindTags(d, es, {"td"}) IN [i \in DOMAIN cells |-> Text(d, cells[i])]
TablesWithoutHead(d, sel) ==
  SelectSeq(FindTags(d, sel, {"table"}), LAMBDA t : FindTags(d, <<t>>, {"thead"}) = <<>>)
Repaired(t) ==
  LET rows == FindTags(input, <<t>>, {"tr"})
      heads == SelectSeq(Children(dom, t), LAMBDA k : dom[k].tag = "thead")
      bodies == SelectSeq(Children(dom, t), LAMBDA k : dom[k].tag = "tbody")
  IN /\ Len(heads) = 1
     /\ Len(bodies) = 1
     /\ rows # <<>> =>
          /\ CellTexts(dom, heads) = CellTexts(input, <<Head(rows)>>)
          /\ CellTexts(dom, bodies) = CellTexts(input, Tail(rows))

\* C4: repairing a table without <thead>, with or without <tbody> and with
\* any number of rows, raises no error and leaves one <thead> holding the
\* first row's cells and one <tbody> holding every other row's cells in order.
C4_TableRepair ==
  (pc \in {"html", "done", "threw"} /\ content # <<>>) =>
     \A t \in Range(TablesWithoutHead(input, content)) :
        pc # "threw" /\ Repaired(t)

\* C5: cleanHTML applied to the tree a first cleanHTML produced removes no
\* further node.
C5_CleanIdempotent ==
  pc = "findContentSection" => Attached(cleanHTML(dom, options)) = Attached(dom)

\* C6: when the whole document holds zero or at least two <h1>,
\* post-processing leaves every <h1> of the content subtree in place.
C6_H1OnlyRemovedWhenUnique ==
  [][(pc = "cleanContent" /\ Len(H1s(dom)) # 1)
       => \A h \in Range(FindTags(dom, content, {"h1"})) : h \in Attached(dom')]_vars

\* the document is a <div class="sidebar"> and a class-less, id-less <div>
\* whose only child is the <p> para, which holds at most links
Scenario7(sb, dv, para) ==
  /\ input[Body].kids \in {<<sb, dv>>, <<dv, sb>>}
  /\ input[sb].tag = "div" /\ input[sb].cls = "sidebar"
  /\ input[dv].tag = "div" /\ input[dv].cls = "" /\ input[dv].id = ""
  /\ input[dv].kids = <<para>>
  /\ input[para].tag = "p" /\ input[para].cls = "" /\ input[para].id = ""
  /\ \A k \in Range(input[para].kids) : input[k].tag = "a"
  /\ Length(Text(input, para)) >= MIN_CHARS
  /\ ~StringLessThan(Text(input, para), MIN_CHARS)

\* 1 + segments + min(floor(length / 100), 3), from the text alone
Increment(t) ==
  LET h == Length(t) \div 100
  IN 1 + (CountChar(t, ",") + 1) + (IF h < 3 THEN h ELSE 3)

ExpectedArticle(d) ==
  LET ss == Find(d, <<Body>>, {n \in DOMAIN d : IsSection(d, n)})
  IN IF ss = <<>> THEN 0
     ELSE ss[CHOOSE i \in DOMAIN ss :
               /\ \A j \in DOMAIN ss : NbrParas(d, ss[j]) <= NbrParas(d, ss[i])
               /\ \A j \in 1..(i - 1) : NbrParas(d, ss[j]) < NbrParas(d, ss[i])]

\* C8: findArticle returns nothing only when nothing matches the container
\* selectors; otherwise the first match with the most descendant <p>, also
\* when every match has none.
C8_ArticleWheneverMatch ==
  [][(pc = "findContentSection" /\ options.htmlSelector = "")
       => article' = ExpectedArticle(dom)]_vars

LongParagraph(d, n) == d[n].tag = "p" /\ Length(Text(d, n)) >= MIN_CHARS

\* C9: after candidate collection every scored element is a <p> of at least
\* 25 characters or the parent of one; a shorter <p> has no score and stays
\* in the tree unless its text is empty.
C9_OnlyLongParagraphsScored ==
  (pc = "getTopCandidate" /\ ci = 1) =>
     /\ \A n \in DOMAIN readability :
          readability[n].has =>
             \/ LongParagraph(dom, n)
             \/ \E k \in Range(dom[n].kids) : LongParagraph(dom, k)
     /\ \A k \in Range(paras) :
          Length(Text(dom, k)) < MIN_CHARS =>
             /\ ~readability[k].has
             /\ Length(Text(dom, k)) > 0 => k \in Attached(dom)

\* C10 (as stated): selection leaves the contentScore stored on every
\* candidate as accumulation left it.
C10_StoredScoreKept ==
  [][pc = "getTopCandidate"
       => \A c \in Range(candidates) :
             readability'[c].contentScore = readability[c].contentScore]_vars

\* C10 (amended): each step of selection rewrites the stored contentScore of
\* one candidate, the one it visits, to its value times (1 - linkDensity);
\* no candidate is visited twice, so the factor is applied exactly once and
\* the stored score is kept only where the link density is 0.
C10_StoredScoreScaledOnce ==
  [][(pc = "getTopCandidate" /\ ci <= Len(candidates))
       => LET c == candidates[ci]
              old == readability[c].contentScore
              new == readability'[c].contentScore
              textLength == Length(removeExtraChars(Text(dom, c)))
              linkLength == SumLength(dom, FindTags(dom, <<c>>, {"a"}))
          IN /\ \A i \in 1..(ci - 1) : candidates[i] # c
             /\ \A e \in DOMAIN readability : e # c => readability'[e] = readability[e]
             /\ textLength > 0 /\ new.d > 0
             /\ new.n * old.d * textLength = old.n * (textLength - linkLength) * new.d]_vars

\* selection has visited every candidate, one of them holds a link and
\* still has a positive stored score
C10_Witness ==
  /\ pc = "getTopCandidate"
  /\ ci > Len(candidates)
  /\ \E c \in Range(candidates) :
        /\ SumLength(dom, FindTags(dom, <<c>>, {"a"})) > 0
        /\ readability[c].contentScore.n > 0

====
